---- MODULE Spec2Model ----
(***************************************************************************)
(* A model of aql's SQLite engine (src/aql/engines/sqlite.py) and of the   *)
(* Column expression builders (src/aql/column.py).                         *)
(*                                                                         *)
(* Text.  A Python str is a TLA+ string and str.join / f-strings are       *)
(* string concatenation (\o).  SANY's lexer rejects the grave accent       *)
(* inside a string literal, so BQ stands for the character ` that the      *)
(* engine puts around identifiers.                                         *)
(***************************************************************************)
EXTENDS Integers, Sequences, FiniteSets, TLC

VARIABLES
    query,        \* SqliteEngine.create: the Query handed to create()
    result,       \* SqliteEngine.create: what the call raised / returned
    pc,           \* SqliteEngine.create: "start" before the call, "done" after
    _conn,        \* SqliteConnection._conn: the driver handle, or None
    handles,      \* the driver: each handle is "unused", "open" or "closed"
    lifecycle,    \* the lifecycle state the calls made so far put the connection in
    trace,        \* the engine and driver calls the connection made, in order
    history,      \* one record per connect()/query()/close() call, in order
    col,          \* a Column object
    heap,         \* the lists in memory: address -> items
    comparison,   \* what the last operator applied to column returned
    called        \* the last operator applied to column, with its argument

createVars == <<query, result, pc>>
connVars == <<_conn, handles, lifecycle, trace, history>>
columnVars == <<col, heap, comparison, called>>
vars == <<createVars, connVars, columnVars>>

(***************************************************************************)
(* Bounds of the model.                                                    *)
(***************************************************************************)
MaxCols == 2
MaxIdx == 2
MaxHandles == 2
MaxCalls == 4
MaxLists == 3
MaxLen == 2

(***************************************************************************)
(* Values                                                                  *)
(***************************************************************************)
BQ == "\""

NO_DEFAULT == [kind |-> "NO_DEFAULT", s |-> "", n |-> 0]

StrVal(s) == [kind |-> "str", s |-> s, n |-> 0]
IntVal(n) == [kind |-> "int", s |-> "", n |-> n]
NoneVal == [kind |-> "None", s |-> "", n |-> 0]

\* Python's repr() of the literals the model draws defaults from.
repr(v) ==
    CASE v.kind = "str" -> "'" \o v.s \o "'"
      [] v.kind = "int" -> ToString(v.n)
      [] v.kind = "None" -> "None"
      [] OTHER -> "<object object>"

\* sep.join(strs)
RECURSIVE join(_, _)
join(sep, strs) ==
    IF Len(strs) = 0 THEN ""
    ELSE IF Len(strs) = 1 THEN strs[1]
    ELSE strs[1] \o sep \o join(sep, Tail(strs))

\* SqlEngine.TYPES as the SQLite engine inherits it: root type -> dialect name.
TYPES == [r \in {"int", "str"} |-> IF r = "int" THEN "INTEGER" ELSE "TEXT"]

Column(name, ctype, default, table_name) ==
    [name |-> name, ctype |-> ctype, default |-> default, table_name |-> table_name]

PreparedQuery(table, sql, parameters) ==
    [table |-> table, sql |-> sql, parameters |-> parameters]

(***************************************************************************)
(* SqliteEngine.create                                                     *)
(***************************************************************************)
\* Column parts with NOT NULL put before AUTOINCREMENT.
ColumnPartsNotNullFirst(column, ctype) ==
    LET p0 == <<BQ \o column.name \o BQ, TYPES[ctype.root]>>
        p1 == IF ctype.constraint = "Primary" THEN Append(p0, "PRIMARY KEY")
              ELSE IF ctype.constraint = "Unique" THEN Append(p0, "UNIQUE")
              ELSE p0
        p2 == IF ~ctype.nullable THEN Append(p1, "NOT NULL") ELSE p1
        p3 == IF ctype.autoincrement THEN Append(p2, "AUTOINCREMENT") ELSE p2
        p4 == IF column.default # NO_DEFAULT
              THEN p3 \o <<"DEFAULT", repr(column.default)>>
              ELSE p3
    IN  p4

\* The parts of one column definition (the body of the first loop).
ColumnParts(column, ctype) ==
    LET p0 == <<BQ \o column.name \o BQ, TYPES[ctype.root]>>
        p1 == IF ctype.constraint = "Primary" THEN Append(p0, "PRIMARY KEY")
              ELSE IF ctype.constraint = "Unique" THEN Append(p0, "UNIQUE")
              ELSE p0
        p2 == IF ctype.autoincrement THEN Append(p1, "AUTOINCREMENT") ELSE p1
        p3 == IF ~ctype.nullable THEN Append(p2, "NOT NULL") ELSE p2
        p4 == IF column.default # NO_DEFAULT
              THEN p3 \o <<"DEFAULT", repr(column.default)>>
              ELSE p3
    IN  p4

\* A column loop that skips a column without a type descriptor instead of raising.
RECURSIVE ColumnLoopSkipsUntyped(_, _, _)
ColumnLoopSkipsUntyped(table, i, column_defs) ==
    IF i > Len(table._columns)
    THEN [raised |-> "", message |-> "", column_defs |-> column_defs]
    ELSE LET column == table._columns[i] IN
         IF column \notin DOMAIN table._column_types
         THEN ColumnLoopSkipsUntyped(table, i + 1, column_defs)
         ELSE LET ctype == table._column_types[column] IN
              IF ctype.root \notin DOMAIN TYPES
              THEN [raised |-> "BuildError",
                    message |-> "Unsupported column type " \o ctype.root,
                    column_defs |-> column_defs]
              ELSE ColumnLoopSkipsUntyped(table, i + 1,
                       Append(column_defs, join(" ", ColumnParts(column, ctype))))

\* for column in query.table._columns: ... column_defs.append(" ".join(parts))
RECURSIVE ColumnLoop(_, _, _)
ColumnLoop(table, i, column_defs) ==
    IF i > Len(table._columns)
    THEN [raised |-> "", message |-> "", column_defs |-> column_defs]
    ELSE LET column == table._columns[i] IN
         IF column \notin DOMAIN table._column_types
         THEN [raised |-> "BuildError",
               message |-> "No column type found for " \o column.name,
               column_defs |-> column_defs]
         ELSE LET ctype == table._column_types[column] IN
              IF ctype.root \notin DOMAIN TYPES
              THEN [raised |-> "BuildError",
                    message |-> "Unsupported column type " \o ctype.root,
                    column_defs |-> column_defs]
              ELSE ColumnLoop(table, i + 1,
                              Append(column_defs, join(" ", ColumnParts(column, ctype))))

\* Constraint parts that list the constraint's columns in reverse.
IndexPartsReversed(con) ==
    LET n == Len(con._columns)
        columns == join(", ", [k \in 1..n |-> BQ \o con._columns[n + 1 - k] \o BQ])
    IN  IF con.kind = "Primary" THEN <<"PRIMARY KEY", "(" \o columns \o ")">>
        ELSE IF con.kind = "Unique" THEN <<"UNIQUE", "(" \o columns \o ")">>
        ELSE <<>>

\* The parts of one table-level constraint; <<>> when the kind is skipped.
IndexParts(con) ==
    LET columns == join(", ", [k \in 1..Len(con._columns) |-> BQ \o con._columns[k] \o BQ])
    IN  IF con.kind = "Primary" THEN <<"PRIMARY KEY", "(" \o columns \o ")">>
        ELSE IF con.kind = "Unique" THEN <<"UNIQUE", "(" \o columns \o ")">>
        ELSE <<>>

\* for con in query.table._indexes: ... column_defs.append(" ".join(parts))
RECURSIVE IndexLoop(_, _, _)
IndexLoop(table, i, column_defs) ==
    IF i > Len(table._indexes) THEN column_defs
    ELSE LET parts == IndexParts(table._indexes[i]) IN
         IF parts = <<>>
         THEN IndexLoop(table, i + 1, column_defs)
         ELSE IndexLoop(table, i + 1, Append(column_defs, join(" ", parts)))

\* A statement that puts IF NOT EXISTS after the table name.
StatementIneAfterName(q, column_defs) ==
    LET ine == IF q._if_not_exists THEN " IF NOT EXISTS" ELSE ""
    IN  "CREATE TABLE " \o BQ \o q.table._name \o BQ \o ine
        \o " (" \o join(", ", column_defs) \o ")"

\* ine = ...; sql = f"CREATE TABLE {ine}`{query.table._name}` ({', '.join(column_defs)})"
Statement(q, column_defs) ==
    LET ine == IF q._if_not_exists THEN "IF NOT EXISTS " ELSE ""
    IN  "CREATE TABLE " \o ine \o BQ \o q.table._name \o BQ
        \o " (" \o join(", ", column_defs) \o ")"

create(q) ==
    LET cols == ColumnLoop(q.table, 1, <<>>) IN
    IF cols.raised # ""
    THEN [raised |-> cols.raised, message |-> cols.message, returned |-> {}]
    ELSE LET column_defs == IndexLoop(q.table, 1, cols.column_defs)
             sql == Statement(q, column_defs)
             parameters == <<>>
         IN  [raised |-> "", message |-> "",
              returned |-> {PreparedQuery(q.table, sql, parameters)}]

(***************************************************************************)
(* Inputs of create(): the tables the model compiles.                      *)
(***************************************************************************)
ColumnType(root, nullable, autoincrement, constraint) ==
    [root |-> root, nullable |-> nullable, autoincrement |-> autoincrement,
     constraint |-> constraint]

\* One declared column: whether the column-type mapping has an entry for it,
\* the entry, and the column's default.
Option(has, ctype, default) == [has |-> has, ctype |-> ctype, default |-> default]

NamePool == {"id", "name", "email"}

\* Declared column lists: the names are attribute names, hence distinct.
NameSeqs ==
    UNION { {ns \in [1..n -> NamePool] : \A i, j \in 1..n : i # j => ns[i] # ns[j]}
            : n \in 0..MaxCols }

\* The descriptors of the multi-column tables.
Options ==
    { Option(FALSE, ColumnType("int", TRUE, FALSE, "none"), NO_DEFAULT),
      Option(TRUE, ColumnType("bytes", TRUE, FALSE, "none"), NO_DEFAULT),
      Option(TRUE, ColumnType("int", FALSE, TRUE, "Primary"), NO_DEFAULT),
      Option(TRUE, ColumnType("str", FALSE, FALSE, "none"), StrVal("anon")) }

\* Every combination of descriptor flags and default, for one column.
AllOptions ==
    { Option(h, ColumnType(r, nl, ai, c), d) :
        h \in BOOLEAN, r \in {"int", "str", "bytes"}, nl \in BOOLEAN, ai \in BOOLEAN,
        c \in {"none", "Primary", "Unique"},
        d \in {NO_DEFAULT, StrVal("anon"), IntVal(0), NoneVal} }

Constraint(kind, columns) == [kind |-> kind, _columns |-> columns]

Constraints ==
    { Constraint(k, cs) : k \in {"Primary", "Unique", "Index"},
                          cs \in {<<"id", "name">>, <<"name", "id">>} }

IndexSeqs == UNION { [1..n -> Constraints] : n \in 0..MaxIdx }

Table(name, ns, opts, indexes) ==
    LET columns == [i \in 1..Len(ns) |-> Column(ns[i], opts[i].ctype.root, opts[i].default, name)]
        typed == {i \in 1..Len(ns) : opts[i].has}
    IN  [_name |-> name,
         _columns |-> columns,
         _column_types |-> [c \in {columns[i] : i \in typed} |->
                              opts[CHOOSE i \in typed : columns[i] = c].ctype],
         _indexes |-> indexes]

Query(table, if_not_exists) == [table |-> table, _if_not_exists |-> if_not_exists]

(***************************************************************************)
(* Compiling one query: query is drawn by Init, Create applies create().   *)
(***************************************************************************)
NotRun == [raised |-> "", message |-> "", returned |-> {}]

\* Tables of up to MaxCols columns and MaxIdx table-level constraints.
InitCreate ==
    /\ query \in { Query(Table("users", ns, opts, idx), ine) :
                     ns \in NameSeqs, opts \in [1..MaxCols -> Options],
                     idx \in IndexSeqs, ine \in BOOLEAN }
    /\ result = NotRun
    /\ pc = "start"

\* One-column tables with every combination of descriptor flags and default.
InitColumnDef ==
    /\ query \in { Query(Table("users", <<n>>, <<o>>, <<>>), ine) :
                     n \in {"id"}, o \in AllOptions, ine \in BOOLEAN }
    /\ result = NotRun
    /\ pc = "start"

Create ==
    /\ pc = "start"
    /\ result' = create(query)
    /\ pc' = "done"
    /\ UNCHANGED <<query, connVars, columnVars>>

(***************************************************************************)
(* Properties of create().                                                 *)
(***************************************************************************)
\* Some declared column has no type descriptor, or one whose root type the
\* engine's TYPES table does not hold.
Undescribed(table) ==
    \E i \in 1..Len(table._columns) :
        LET c == table._columns[i] IN
        \/ c \notin DOMAIN table._column_types
        \/ table._column_types[c].root \notin DOMAIN TYPES

\* C5: create fails with BuildError exactly when some declared column has no
\* type descriptor or a descriptor whose root type is not in TYPES; then no
\* PreparedQuery is produced.  Otherwise it returns one PreparedQuery for the
\* same table, with an empty parameter list.
C5_BuildErrorIffUndescribed ==
    pc = "done" =>
        /\ (result.raised = "BuildError") <=> Undescribed(query.table)
        /\ Undescribed(query.table) => result.returned = {}
        /\ ~Undescribed(query.table) =>
              /\ result.raised = ""
              /\ Cardinality(result.returned) = 1
              /\ \A p \in result.returned :
                    p.table = query.table /\ p.parameters = <<>>

\* create has raised on the second of two columns, the first being described.
C5_Witness ==
    /\ pc = "done"
    /\ result.raised = "BuildError"
    /\ Len(query.table._columns) = 2
    /\ query.table._columns[1] \in DOMAIN query.table._column_types
    /\ query.table._column_types[query.table._columns[1]].root \in DOMAIN TYPES
    /\ query.table._columns[2] \notin DOMAIN query.table._column_types

\* The column definition the clause order of the specification prescribes.
ExpectedColumnDef(c, t) ==
    BQ \o c.name \o BQ \o " " \o TYPES[t.root]
    \o (IF t.constraint = "Primary" THEN " PRIMARY KEY" ELSE "")
    \o (IF t.constraint = "Unique" THEN " UNIQUE" ELSE "")
    \o (IF t.autoincrement THEN " AUTOINCREMENT" ELSE "")
    \o (IF t.nullable THEN "" ELSE " NOT NULL")
    \o (IF c.default = NO_DEFAULT THEN "" ELSE " DEFAULT " \o repr(c.default))

\* C6: for every combination of constraint, autoincrement, nullable and
\* default, the column definition is: quoted name, type name, PRIMARY KEY or
\* UNIQUE iff the constraint is Primary or Unique, AUTOINCREMENT iff set,
\* NOT NULL iff not nullable, DEFAULT <literal> iff a default was supplied,
\* in this order.
C6_ColumnDefClauseOrder ==
    (pc = "done" /\ result.raised = ""
     /\ Len(query.table._columns) = 1 /\ Len(query.table._indexes) = 0) =>
        LET c == query.table._columns[1]
            t == query.table._column_types[c]
        IN  \A p \in result.returned :
                p.sql = "CREATE TABLE "
                        \o (IF query._if_not_exists THEN "IF NOT EXISTS " ELSE "")
                        \o BQ \o query.table._name \o BQ
                        \o " (" \o ExpectedColumnDef(c, t) \o ")"

\* A compiled column with every clause at once.
C6_Witness ==
    /\ pc = "done"
    /\ result.raised = ""
    /\ result.returned # {}
    /\ Len(query.table._columns) = 1
    /\ LET c == query.table._columns[1]
           t == query.table._column_types[c]
       IN  /\ t.constraint = "Primary"
           /\ t.autoincrement
           /\ ~t.nullable
           /\ c.default = StrVal("anon")

\* The table-level constraints create emits a definition for, in declared order.
Emitted(table) ==
    SelectSeq(table._indexes, LAMBDA con : con.kind \in {"Primary", "Unique"})

\* C7: the statement is CREATE TABLE, IF NOT EXISTS right after it iff the
\* flag is set, the quoted table name, then in parentheses and joined by
\* commas one definition per declared column in declared order, followed by
\* the table-level constraint definitions in declared order.
C7_StatementShape ==
    (pc = "done" /\ result.raised = "") =>
        LET t == query.table
            coldefs == [i \in 1..Len(t._columns) |->
                          join(" ", ColumnParts(t._columns[i],
                                                t._column_types[t._columns[i]]))]
            condefs == [j \in 1..Len(Emitted(t)) |->
                          join(" ", IndexParts(Emitted(t)[j]))]
        IN  \A p \in result.returned :
                p.sql = "CREATE TABLE "
                        \o (IF query._if_not_exists THEN "IF NOT EXISTS " ELSE "")
                        \o BQ \o t._name \o BQ
                        \o " (" \o join(", ", coldefs \o condefs) \o ")"

\* A compiled IF NOT EXISTS statement of two columns and two constraints.
C7_Witness ==
    /\ pc = "done"
    /\ result.raised = ""
    /\ result.returned # {}
    /\ query._if_not_exists
    /\ Len(query.table._columns) = 2
    /\ Len(query.table._indexes) = 2
    /\ query.table._indexes[1].kind = "Unique"
    /\ query.table._indexes[2].kind = "Primary"

\* The quoted names of a constraint's columns, in declared order.
RECURSIVE NameList(_)
NameList(names) ==
    IF names = <<>> THEN ""
    ELSE BQ \o Head(names) \o BQ
         \o (IF Tail(names) = <<>> THEN "" ELSE ", " \o NameList(Tail(names)))

\* C8: every Primary table-level constraint is emitted as PRIMARY KEY (...)
\* and every Unique one as UNIQUE (...), over the constraint's column names
\* in declared order; a constraint of another kind is skipped, so as many
\* definitions are emitted as there are Primary and Unique constraints.
C8_ConstraintDefs ==
    (pc = "done" /\ result.raised = "") =>
        LET t == query.table
            defs == IndexLoop(t, 1, <<>>)
        IN  /\ Len(defs) = Len(Emitted(t))
            /\ \A j \in 1..Len(defs) :
                  defs[j] = (IF Emitted(t)[j].kind = "Primary"
                             THEN "PRIMARY KEY" ELSE "UNIQUE")
                            \o " (" \o NameList(Emitted(t)[j]._columns) \o ")"
            /\ \A p \in result.returned :
                  p.sql = Statement(query, ColumnLoop(t, 1, <<>>).column_defs \o defs)

\* A compiled table with a skipped constraint and a composite UNIQUE (name, id).
C8_Witness ==
    /\ pc = "done"
    /\ result.raised = ""
    /\ result.returned # {}
    /\ Len(query.table._indexes) = 2
    /\ query.table._indexes[1].kind = "Index"
    /\ query.table._indexes[2] = Constraint("Unique", <<"name", "id">>)

(***************************************************************************)
(* SqliteConnection: connect / close / query over the aiosqlite driver.    *)
(***************************************************************************)
None == 0
Handles == 1..MaxHandles

UsersColumns ==
    <<Option(TRUE, ColumnType("int", FALSE, TRUE, "Primary"), NO_DEFAULT),
      Option(TRUE, ColumnType("str", FALSE, FALSE, "none"), StrVal("anon"))>>

\* The queries the callers of query() issue: two that compile, one that does not.
SampleQueries ==
    <<Query(Table("users", <<"id", "name">>, UsersColumns, <<>>), FALSE),
      Query(Table("users", <<"id", "name">>, UsersColumns, <<>>), TRUE),
      Query(Table("users", <<"id", "name">>,
                  <<UsersColumns[1], Option(FALSE, UsersColumns[2].ctype, NO_DEFAULT)>>,
                  <<>>), FALSE)>>

\* Engine.prepare of a table-creation query: the engine's create().
prepare(q) == create(q)

Event(ev, call, h, sql, parameters, ok) ==
    [ev |-> ev, call |-> call, h |-> h, sql |-> sql, parameters |-> parameters, ok |-> ok]

Call(op, q, pre, post, conn_pre, conn_post, res) ==
    [op |-> op, q |-> q, pre |-> pre, post |-> post,
     conn_pre |-> conn_pre, conn_post |-> conn_post, result |-> res]

\* Connection.__init__: no driver handle yet.
InitConnection ==
    /\ _conn = None
    /\ handles = [h \in Handles |-> "unused"]
    /\ lifecycle = "Unconnected"
    /\ trace = <<>>
    /\ history = <<>>

\* self._conn = await aiosqlite.connect(...): the driver hands out a fresh
\* handle, or raises and the assignment never happens.
connect(call) ==
    \/ \E h \in Handles :
         /\ handles[h] = "unused"
         /\ \A g \in Handles : g < h => handles[g] # "unused"
         /\ _conn' = h
         /\ handles' = [handles EXCEPT ![h] = "open"]
         /\ lifecycle' = "Connected"
         /\ trace' = Append(trace, Event("connect", call, h, "", <<>>, TRUE))
         /\ history' = Append(history,
                              Call("connect", 0, lifecycle, "Connected", _conn, h, "ok"))
    \/ /\ trace' = Append(trace, Event("connect", call, None, "", <<>>, FALSE))
       /\ history' = Append(history,
                            Call("connect", 0, lifecycle, lifecycle, _conn, _conn, "DriverError"))
       /\ UNCHANGED <<_conn, handles, lifecycle>>

\* if self._conn: await self._conn.close()
close(call) ==
    LET post == IF lifecycle = "Connected" THEN "Closed" ELSE lifecycle IN
    \/ /\ _conn = None
       /\ lifecycle' = post
       /\ history' = Append(history, Call("close", 0, lifecycle, post, _conn, _conn, "ok"))
       /\ UNCHANGED <<_conn, handles, trace>>
    \/ /\ _conn # None
       /\ \E ok \in BOOLEAN :
            \* the driver closes an open handle; what it does with a handle it
            \* already closed is its own business
            /\ (handles[_conn] = "open" => ok)
            /\ trace' = Append(trace, Event("close", call, _conn, "", <<>>, ok))
            /\ history' = Append(history,
                                 Call("close", 0, lifecycle, post, _conn, _conn,
                                      IF ok THEN "ok" ELSE "DriverError"))
       /\ handles' = [handles EXCEPT ![_conn] = "closed"]
       /\ lifecycle' = post
       /\ UNCHANGED _conn

\* A query() that reaches the driver before the engine has compiled the query.
QueryEventsExecuteFirst(call, qi, conn, ok) ==
    LET prepared == prepare(SampleQueries[qi]) IN
    IF prepared.raised # ""
    THEN <<Event("prepare", call, None, "", <<>>, FALSE)>>
    ELSE LET p == CHOOSE x \in prepared.returned : TRUE IN
         (IF conn = None THEN <<>>
          ELSE <<Event("execute", call, conn, p.sql, p.parameters, ok)>>)
         \o <<Event("prepare", call, None, p.sql, p.parameters, TRUE)>>

\* The engine and driver calls one query() makes, in the order it makes them:
\* prepared = self.engine.prepare(query), then self._conn.execute(sql, parameters).
QueryEvents(call, qi, conn, ok) ==
    LET prepared == prepare(SampleQueries[qi]) IN
    IF prepared.raised # ""
    THEN <<Event("prepare", call, None, "", <<>>, FALSE)>>
    ELSE LET p == CHOOSE x \in prepared.returned : TRUE IN
         <<Event("prepare", call, None, p.sql, p.parameters, TRUE)>>
         \o (IF conn = None THEN <<>>
             ELSE <<Event("execute", call, conn, p.sql, p.parameters, ok)>>)

\* What query() raises ("ok": it returns a SqliteCursor).
QueryResult(qi, conn, ok) ==
    IF prepare(SampleQueries[qi]).raised # "" THEN "BuildError"
    ELSE IF conn = None THEN "AttributeError"
    ELSE IF ok THEN "ok" ELSE "DriverError"

\* A query() that drops the handle when it fails.
QueryConnDropsOnFailure(qi, conn, ok) ==
    IF QueryResult(qi, conn, ok) = "ok" THEN conn ELSE None

\* What query() leaves in self._conn.
QueryConn(qi, conn, ok) == conn

query_(call, qi) ==
    \E ok \in BOOLEAN :
        \* execute on a closed handle fails in the driver; on an open handle the
        \* statement runs or the database rejects it
        /\ (_conn # None /\ handles[_conn] # "open" => ~ok)
        /\ (_conn = None \/ prepare(SampleQueries[qi]).raised # "" => ok)
        /\ trace' = trace \o QueryEvents(call, qi, _conn, ok)
        /\ _conn' = QueryConn(qi, _conn, ok)
        /\ history' = Append(history,
                             Call("query", qi, lifecycle, lifecycle, _conn, _conn',
                                  QueryResult(qi, _conn, ok)))
        /\ UNCHANGED <<handles, lifecycle>>

Connect ==
    /\ Len(history) < MaxCalls
    /\ connect(Len(history) + 1)
    /\ UNCHANGED <<createVars, columnVars>>

Close ==
    /\ Len(history) < MaxCalls
    /\ close(Len(history) + 1)
    /\ UNCHANGED <<createVars, columnVars>>

DoQuery ==
    /\ Len(history) < MaxCalls
    /\ \E qi \in 1..Len(SampleQueries) : query_(Len(history) + 1, qi)
    /\ UNCHANGED <<createVars, columnVars>>

(***************************************************************************)
(* Properties of SqliteConnection.                                         *)
(***************************************************************************)
EventsOf(k, ev) == {e \in 1..Len(trace) : trace[e].call = k /\ trace[e].ev = ev}

\* C1: a query() made while the connection is not Connected (never connected,
\* or closed) fails, and the driver's execute is not called for it.  Any
\* error the call raises is taken for the connection-state error.
C1_QueryOutsideConnectedFails ==
    \A k \in 1..Len(history) :
        (history[k].op = "query" /\ history[k].pre # "Connected") =>
            /\ history[k].result # "ok"
            /\ EventsOf(k, "execute") = {}

\* C2: the driver-level close is called at most once per handle, and a
\* close() on a Closed connection raises nothing and calls the driver not at all.
C2_CloseIsIdempotent ==
    /\ \A h \in Handles :
          Cardinality({e \in 1..Len(trace) : trace[e].ev = "close" /\ trace[e].h = h}) <= 1
    /\ \A k \in 1..Len(history) :
          (history[k].op = "close" /\ history[k].pre = "Closed") =>
              /\ history[k].result = "ok"
              /\ \A e \in 1..Len(trace) : trace[e].call # k

\* C3: once close() has completed on a handle, the connection stores no handle
\* until the next connect(), and no later query() or close() reaches that handle.
C3_NoStaleHandle ==
    /\ lifecycle = "Closed" => _conn = None
    /\ \A e1, e2 \in 1..Len(trace) :
          (e1 < e2 /\ trace[e1].ev = "close" /\ trace[e2].h = trace[e1].h) =>
              trace[e2].ev \notin {"execute", "close"}

\* C4: a query() that fails on a Connected connection, by BuildError or in the
\* driver, leaves the connection Connected with the handle it had, and a
\* following query() of a query that compiles is executed on that handle.
C4_FailedQueryKeepsHandle ==
    \A k \in 1..Len(history) :
        (history[k].op = "query" /\ history[k].pre = "Connected"
         /\ history[k].result # "ok") =>
            /\ history[k].post = "Connected"
            /\ history[k].conn_post = history[k].conn_pre
            /\ (/\ k < Len(history)
                /\ history[k + 1].op = "query"
                /\ create(SampleQueries[history[k + 1].q]).raised = "") =>
                   \E e \in EventsOf(k + 1, "execute") :
                       trace[e].h = history[k].conn_pre

\* A driver failure and a BuildError on a Connected connection, then a query
\* that runs.
C4_Witness ==
    \E k \in 1..Len(history) :
        /\ k + 2 <= Len(history)
        /\ history[k].op = "query" /\ history[k].pre = "Connected"
        /\ history[k].result = "DriverError"
        /\ history[k + 1].op = "query" /\ history[k + 1].result = "BuildError"
        /\ history[k + 2].op = "query" /\ history[k + 2].result = "ok"

\* C9: the driver's execute is called only right after the engine's prepare
\* has returned for the same query() call, with the sql and parameters of that
\* PreparedQuery; a query() whose prepare fails calls execute not at all; the
\* driver sees the statements in the order the query() calls were made.
C9_PrepareThenExecute ==
    /\ \A e \in 1..Len(trace) :
          trace[e].ev = "execute" =>
              /\ e > 1
              /\ trace[e - 1].ev = "prepare"
              /\ trace[e - 1].call = trace[e].call
              /\ trace[e - 1].ok
              /\ history[trace[e].call].op = "query"
              /\ \E p \in create(SampleQueries[history[trace[e].call].q]).returned :
                    trace[e].sql = p.sql /\ trace[e].parameters = p.parameters
    /\ \A k \in 1..Len(history) :
          history[k].op = "query" =>
              /\ Cardinality(EventsOf(k, "prepare")) = 1
              /\ Cardinality(EventsOf(k, "execute")) <= 1
              /\ (\E e \in EventsOf(k, "prepare") : ~trace[e].ok) =>
                     EventsOf(k, "execute") = {}
    /\ \A e1, e2 \in 1..Len(trace) :
          (e1 < e2 /\ trace[e1].ev = "execute" /\ trace[e2].ev = "execute") =>
              trace[e1].call < trace[e2].call

\* Two different statements executed, with a failed prepare between them.
C9_Witness ==
    \E e1, e2, e3 \in 1..Len(trace) :
        /\ e1 < e2 /\ e2 < e3
        /\ trace[e1].ev = "execute"
        /\ trace[e2].ev = "prepare" /\ ~trace[e2].ok
        /\ trace[e3].ev = "execute"
        /\ trace[e1].sql # trace[e3].sql

(***************************************************************************)
(* Column: the operators that build Comparison nodes.                      *)
(***************************************************************************)
ListRef(a) == [kind |-> "list", s |-> "", n |-> a]

Comparison(left, operator, right) ==
    [cls |-> "Comparison", left |-> left, operator |-> operator, right |-> right]

\* What a method leaves in self and in memory, and what it returns.
Returns(self, mem, ret) == [self |-> self, heap |-> mem, ret |-> ret]

\* list(values): a new list holding the items of values.
list(mem, values) ==
    LET a == Cardinality(DOMAIN mem) + 1 IN
    [heap |-> [x \in DOMAIN mem \cup {a} |-> IF x = a THEN mem[values.n] ELSE mem[x]],
     ref |-> ListRef(a)]

\* An in_ that keeps the caller's list instead of copying it.
in_NoCopy(self, mem, values) == Returns(self, mem, Comparison(self, "in_", values))

in_(self, mem, values) ==
    LET copy == list(mem, values) IN
    Returns(self, copy.heap, Comparison(self, "in_", copy.ref))

like(self, mem, value) == Returns(self, mem, Comparison(self, "like", value))
ilike(self, mem, value) == Returns(self, mem, Comparison(self, "ilike", value))
__eq__(self, mem, value) == Returns(self, mem, Comparison(self, "eq", value))
__ne__(self, mem, value) == Returns(self, mem, Comparison(self, "ne", value))
__gt__(self, mem, value) == Returns(self, mem, Comparison(self, "gt", value))
__ge__(self, mem, value) == Returns(self, mem, Comparison(self, "ge", value))
__lt__(self, mem, value) == Returns(self, mem, Comparison(self, "lt", value))
__le__(self, mem, value) == Returns(self, mem, Comparison(self, "le", value))

Columns ==
    { Column(n, t, d, tn) : n \in {"id"}, t \in {"int"},
                            d \in {NO_DEFAULT, IntVal(0)}, tn \in {"", "users"} }

\* The lists the caller built before it applies any operator.
CallerLists == {1, 2}

Scalars == {IntVal(1), StrVal("a%"), NoneVal}

NoComparison == [cls |-> "None", left |-> Column("", "", NO_DEFAULT, ""),
                 operator |-> "", right |-> NoneVal]

Called(method, self, arg, items) ==
    [method |-> method, self |-> self, arg |-> arg, items |-> items]

InitColumn ==
    /\ col \in Columns
    /\ heap = [a \in CallerLists |-> IF a = 1 THEN <<1>> ELSE <<>>]
    /\ comparison = NoComparison
    /\ called = Called("", col, NoneVal, <<>>)

\* Applying a method: self, memory and the returned value are what it leaves.
Apply(method, r, arg) ==
    /\ col' = r.self
    /\ heap' = r.heap
    /\ comparison' = r.ret
    /\ called' = Called(method, col, arg,
                        IF arg.kind = "list" THEN heap[arg.n] ELSE <<>>)
    /\ UNCHANGED <<createVars, connVars>>

Values == Scalars \cup {ListRef(a) : a \in DOMAIN heap}

In ==
    /\ Cardinality(DOMAIN heap) < MaxLists
    /\ \E a \in DOMAIN heap : Apply("in_", in_(col, heap, ListRef(a)), ListRef(a))

Like == \E v \in Values : Apply("like", like(col, heap, v), v)
Ilike == \E v \in Values : Apply("ilike", ilike(col, heap, v), v)
Eq == \E v \in Values : Apply("__eq__", __eq__(col, heap, v), v)
Ne == \E v \in Values : Apply("__ne__", __ne__(col, heap, v), v)
Gt == \E v \in Values : Apply("__gt__", __gt__(col, heap, v), v)
Ge == \E v \in Values : Apply("__ge__", __ge__(col, heap, v), v)
Lt == \E v \in Values : Apply("__lt__", __lt__(col, heap, v), v)
Le == \E v \in Values : Apply("__le__", __le__(col, heap, v), v)

\* The caller appends to one of its own lists after the operators were applied.
Mutate ==
    /\ \E a \in CallerLists :
         /\ Len(heap[a]) < MaxLen
         /\ heap' = [heap EXCEPT ![a] = Append(@, 9)]
    /\ UNCHANGED <<col, comparison, called, createVars, connVars>>

(***************************************************************************)
(* Properties of Column.                                                   *)
(***************************************************************************)
\* The Operator member each method of Column stands for.
Tag(method) ==
    CASE method = "__eq__" -> "eq"
      [] method = "__ne__" -> "ne"
      [] method = "__gt__" -> "gt"
      [] method = "__ge__" -> "ge"
      [] method = "__lt__" -> "lt"
      [] method = "__le__" -> "le"
      [] OTHER -> method

\* C10: each of eq, ne, gt, ge, lt, le, like, ilike and in_ applied to a
\* Column c with a value v returns a Comparison (never a boolean) with left = c,
\* the matching Operator and right = v; in_ stores a list of its own holding
\* the items the values had at the call; no operator changes a field of c.
C10_OperatorsBuildComparisons ==
    called.method # "" =>
        /\ comparison.cls = "Comparison"
        /\ comparison.left = called.self
        /\ comparison.operator = Tag(called.method)
        /\ called.method # "in_" => comparison.right = called.arg
        /\ called.method = "in_" =>
              /\ comparison.right.kind = "list"
              /\ comparison.right.n # called.arg.n
              /\ comparison.right.n \notin CallerLists
              /\ heap[comparison.right.n] = called.items
        /\ col = called.self

\* in_ was applied to a list that the caller has changed since.
C10_Witness ==
    /\ called.method = "in_"
    /\ called.items = <<1>>
    /\ heap[called.arg.n] = <<1, 9>>
    /\ heap[comparison.right.n] = <<1>>

(***************************************************************************)
(* Specifications.  Each one runs one component; the others stay idle.     *)
(***************************************************************************)
IdleCreate ==
    /\ query = SampleQueries[1]
    /\ result = NotRun
    /\ pc = "idle"

IdleColumn ==
    /\ col = Column("id", "int", NO_DEFAULT, "users")
    /\ heap = [a \in CallerLists |-> <<>>]
    /\ comparison = NoComparison
    /\ called = Called("", col, NoneVal, <<>>)

NextCreate == Create

NextConn == Connect \/ Close \/ DoQuery

NextColumn == In \/ Like \/ Ilike \/ Eq \/ Ne \/ Gt \/ Ge \/ Lt \/ Le \/ Mutate

InitSpecCreate == InitCreate /\ InitConnection /\ IdleColumn
InitSpecColumnDef == InitColumnDef /\ InitConnection /\ IdleColumn
InitSpecConn == IdleCreate /\ InitConnection /\ IdleColumn
InitSpecColumn == IdleCreate /\ InitConnection /\ InitColumn

SpecCreate == InitSpecCreate /\ [][NextCreate]_vars

SpecColumnDef == InitSpecColumnDef /\ [][NextCreate]_vars

SpecConn == InitSpecConn /\ [][NextConn]_vars

SpecColumn == InitSpecColumn /\ [][NextColumn]_vars

====
